---------------------------- MODULE Spec2Model ----------------------------
(***************************************************************************)
(* Model of smolmodels/internal/models/generation/training.py:             *)
(* the class TrainingCodeGenerator, its constructor, its three implemented *)
(* operations (generate_training_code, fix_training_code,                  *)
(* review_training_code) and its three unimplemented test operations.      *)
(*                                                                         *)
(* Texts are sequences of characters; a "character" of the model is one of *)
(* a few tokens (a fence, a language tag, a newline, a quote, ...).        *)
(* An operation that calls provider.query is blocked inside the provider   *)
(* between its call step and the step in which the provider returns or     *)
(* raises; pc holds each instance's position.                              *)
(***************************************************************************)
EXTENDS Naturals, Sequences, FiniteSets

\* Largest history a caller builds up in the model.
MaxHist == 2

\* The orchestrator objects and the provider objects of the model.
Inst == {"a", "b"}
Providers == {"P1", "P2"}
ListIds == {"L1", "L2"}
NoRef == "null"

\* Role-tagged message records a caller may fold into a history.
Msg == { [role |-> "user", content |-> "m1"],
         [role |-> "assistant", content |-> "m2"] }

VARIABLES
    pc,        \* pc[i]: "new" before __init__, "idle" between calls, else the position inside a call
    provider,  \* provider[i]: self.provider
    histRef,   \* histRef[i]: the list object self.history refers to
    heap,      \* heap[l]: the content of list object l
    alloc,     \* the list objects created so far
    call,      \* call[i]: what the current (or last) call on i did
    appends    \* appends[i]: number of appends made to i's history

vars == <<pc, provider, histRef, heap, alloc, call, appends>>

--------------------------------------------------------------------------
\* Characters of a text.
FENCE == "FENCE"     \* three backticks
LANG == "python"     \* the language tag after an opening fence
NL == "NL"           \* a newline character
QUOTE == "QUOTE"     \* a double quote
ESC_NL == "ESC_NL"   \* the two characters backslash, n
LBRACE == "LBRACE"
RBRACE == "RBRACE"
LBRACKET == "LBRACKET"
RBRACKET == "RBRACKET"
COLON == "COLON"
COMMA == "COMMA"
DIGIT == "1"

\* Python's None as passed for problems (its default).
None == "None"

\* The values the config module supplies (read-only, the same for every call).
config_allowed_packages == "config.code_generation.allowed_packages"
config_training_data_path == "config.execution.training_data_path"

\* Template.safe_substitute(**kwargs): the rendered text is determined by
\* the template and the values bound to its placeholders.
safe_substitute(template, kwargs) == [template |-> template, kwargs |-> kwargs]

NoKwargs == [none \in {} |-> None]

\* config.code_generation.prompt_training_base.safe_substitute()
BaseSystemMessage == safe_substitute("prompt_training_base", NoKwargs)

\* self.history read through the reference held by instance i.
History(i) == IF histRef[i] = NoRef THEN <<>> ELSE heap[histRef[i]]

--------------------------------------------------------------------------
\* extract_code (smolmodels.internal.common.utils.response, not part of the
\* sources at hand): the content of the first fenced block, with the fence
\* markers, the language tag and the surrounding newlines stripped; the
\* empty text when the text holds no fenced block.
Min(S) == CHOOSE x \in S : \A y \in S : x <= y

RECURSIVE StripLeft(_)
StripLeft(t) == IF t # <<>> /\ t[1] = NL THEN StripLeft(Tail(t)) ELSE t

RECURSIVE StripRight(_)
StripRight(t) ==
    IF t # <<>> /\ t[Len(t)] = NL THEN StripRight(SubSeq(t, 1, Len(t) - 1)) ELSE t

extract_code(text) ==
    LET fences == {k \in 1..Len(text) : text[k] = FENCE}
    IN  IF Cardinality(fences) < 2 THEN <<>>
        ELSE LET a == Min(fences)
                 b == Min(fences \ {a})
                 inner == SubSeq(text, a + 1, b - 1)
                 untagged == IF inner # <<>> /\ inner[1] = LANG THEN Tail(inner) ELSE inner
             IN  StripRight(StripLeft(untagged))

--------------------------------------------------------------------------
\* json.loads: the text is cut into lexemes, then parsed as one JSON value.
Punct == {LBRACE, RBRACE, LBRACKET, RBRACKET, COLON, COMMA}

Lexeme(k, s) == [k |-> k, s |-> s]

\* The value of a string literal: an escaped newline becomes a newline.
Decode(content) ==
    [k \in 1..Len(content) |-> IF content[k] = ESC_NL THEN NL ELSE content[k]]

RECURSIVE LexFrom(_, _)
LexFrom(t, i) ==
    IF i > Len(t) THEN <<>>
    ELSE IF t[i] = NL THEN LexFrom(t, i + 1)
    ELSE IF t[i] \in Punct THEN <<Lexeme(t[i], <<>>)>> \o LexFrom(t, i + 1)
    ELSE IF t[i] = DIGIT THEN <<Lexeme("num", <<t[i]>>)>> \o LexFrom(t, i + 1)
    ELSE IF t[i] = QUOTE THEN
        LET closers == {j \in (i + 1)..Len(t) : t[j] = QUOTE}
        IN  IF closers = {} THEN <<Lexeme("bad", <<>>)>>
            ELSE LET j == Min(closers)
                     content == SubSeq(t, i + 1, j - 1)
                 IN  IF \E k \in 1..Len(content) : content[k] = NL
                     THEN <<Lexeme("bad", <<>>)>>
                     ELSE <<Lexeme("str", Decode(content))>> \o LexFrom(t, j + 1)
    ELSE <<Lexeme("bad", <<>>)>>

IsScalar(x) == x.k \in {"str", "num"}

JsonValue(type, s, members) == [type |-> type, s |-> s, members |-> members]

JSONDecodeError == JsonValue("JSONDecodeError", <<>>, <<>>)

\* Lexemes between brackets: scalar (, scalar)*
IsElements(lx) ==
    /\ Len(lx) % 2 = 1
    /\ \A k \in 1..Len(lx) : IF k % 2 = 1 THEN IsScalar(lx[k]) ELSE lx[k].k = COMMA

\* Lexemes between braces: string : scalar (, string : scalar)*
IsMembers(lx) ==
    /\ Len(lx) % 4 = 3
    /\ \A k \in 1..Len(lx) :
          CASE k % 4 = 1 -> lx[k].k = "str"
            [] k % 4 = 2 -> lx[k].k = COLON
            [] k % 4 = 3 -> IsScalar(lx[k])
            [] OTHER -> lx[k].k = COMMA

MembersOf(lx) ==
    [q \in 1..((Len(lx) + 1) \div 4) |->
        [key |-> lx[4 * q - 3].s, val |-> lx[4 * q - 1]]]

json_loads(text) ==
    LET lx == LexFrom(text, 1)
        n == Len(lx)
        inner == SubSeq(lx, 2, n - 1)
    IN  IF n = 0 \/ \E k \in 1..n : lx[k].k = "bad" THEN JSONDecodeError
        ELSE IF n = 1 /\ IsScalar(lx[1]) THEN JsonValue(lx[1].k, lx[1].s, <<>>)
        ELSE IF n >= 2 /\ lx[1].k = LBRACKET /\ lx[n].k = RBRACKET
                /\ (n = 2 \/ IsElements(inner))
             THEN JsonValue("list", <<>>, <<>>)
        ELSE IF n >= 2 /\ lx[1].k = LBRACE /\ lx[n].k = RBRACE
                /\ (n = 2 \/ IsMembers(inner))
             THEN JsonValue("dict", <<>>, IF n = 2 THEN <<>> ELSE MembersOf(inner))
        ELSE JSONDecodeError

\* dict lookup; a key given twice keeps its last value.
HasKey(d, key) == \E q \in 1..Len(d.members) : d.members[q].key = key

Get(d, key) ==
    LET qs == {q \in 1..Len(d.members) : d.members[q].key = key}
        last == CHOOSE q \in qs : \A r \in qs : r <= q
    IN  d.members[last].val

\* Mutant: a missing code field is defaulted to the empty text.
FixResponse_defaults_code(obj) ==
    IF obj.type # "dict"
    THEN [error |-> "TypeError", plan |-> <<>>, code |-> <<>>]
    ELSE IF ~(HasKey(obj, <<"plan">>) /\ Get(obj, <<"plan">>).k = "str")
    THEN [error |-> "ValidationError", plan |-> <<>>, code |-> <<>>]
    ELSE IF ~HasKey(obj, <<"code">>)
    THEN [error |-> "none", plan |-> Get(obj, <<"plan">>).s, code |-> <<>>]
    ELSE IF Get(obj, <<"code">>).k # "str"
    THEN [error |-> "ValidationError", plan |-> <<>>, code |-> <<>>]
    ELSE [error |-> "none", plan |-> Get(obj, <<"plan">>).s, code |-> Get(obj, <<"code">>).s]

\* FixResponse(**obj): obj must be a mapping; the fields plan and code are
\* required and must be str; other keys are ignored.
FieldOk(d, key) == HasKey(d, <<key>>) /\ Get(d, <<key>>).k = "str"

FixResponse(obj) ==
    IF obj.type # "dict"
    THEN [error |-> "TypeError", plan |-> <<>>, code |-> <<>>]
    ELSE IF ~(FieldOk(obj, "plan") /\ FieldOk(obj, "code"))
    THEN [error |-> "ValidationError", plan |-> <<>>, code |-> <<>>]
    ELSE [error |-> "none", plan |-> Get(obj, <<"plan">>).s, code |-> Get(obj, <<"code">>).s]

--------------------------------------------------------------------------
\* The texts a provider may return: it is untrusted, so every operation may
\* be handed any of them.
Str(content) == <<QUOTE>> \o content \o <<QUOTE>>
Member(key, val) == Str(<<key>>) \o <<COLON>> \o val
Obj1(m1) == <<LBRACE>> \o m1 \o <<RBRACE>>
Obj2(m1, m2) == <<LBRACE>> \o m1 \o <<COMMA>> \o m2 \o <<RBRACE>>
Obj3(m1, m2, m3) == <<LBRACE>> \o m1 \o <<COMMA>> \o m2 \o <<COMMA>> \o m3 \o <<RBRACE>>

\* A text as it stands inside a JSON string literal: newlines escaped.
Encode(t) == [k \in 1..Len(t) |-> IF t[k] = NL THEN ESC_NL ELSE t[k]]

FencedRaw == <<FENCE, LANG, NL, "x=1", NL, FENCE>>

RawTexts ==
    { FencedRaw,
      <<"prose", NL>> \o FencedRaw \o <<NL, "prose">>,
      <<FENCE, NL, "y=2", NL, FENCE, NL>> \o FencedRaw,
      <<"prose">>,
      <<>> }

\* The JSON object {"plan": plan, "code": code}
FixText(plan, code) ==
    Obj2(Member("plan", Str(Encode(plan))), Member("code", Str(Encode(code))))

FixPlans == {<<"p">>, <<"q">>}
FixCodes == {FencedRaw, <<"x=1">>}

MinimalFixText == FixText(<<"p">>, FencedRaw)

\* Objects with a text plan and a text code.
ValidFixTexts ==
    {FixText(pl, cd) : pl \in FixPlans, cd \in FixCodes}
        \cup { Obj3(Member("code", Str(<<"y=2">>)), Member("extra", <<DIGIT>>),
                    Member("plan", Str(<<"p">>))) }

\* Texts that are not JSON: a raw newline inside a string, a text cut
\* short, prose around the object.
NotJsonTexts ==
    { Obj2(Member("plan", Str(<<"p">>)), Member("code", Str(FencedRaw))),
      SubSeq(MinimalFixText, 1, Len(MinimalFixText) - 2),
      <<"prose", NL>> \o MinimalFixText }

\* JSON values without a code field.
NoCodeTexts ==
    { Obj1(Member("plan", Str(<<"p">>))),
      <<LBRACE, RBRACE>>,
      <<LBRACKET, RBRACKET>>,
      <<DIGIT>>,
      Str(<<"p">>) }

\* Objects with a code field that still fail the schema.
OtherInvalidFixTexts ==
    { Obj1(Member("code", Str(Encode(FencedRaw)))),
      Obj2(Member("plan", Str(<<"p">>)), Member("code", <<DIGIT>>)) }

ProviderTexts ==
    RawTexts \cup ValidFixTexts \cup NotJsonTexts \cup NoCodeTexts \cup OtherInvalidFixTexts

\* What provider.query does to its caller: it returns a text or raises.
ProviderOutcomes ==
    {[raised |-> TRUE, text |-> <<>>]}
        \cup {[raised |-> FALSE, text |-> t] : t \in ProviderTexts}

\* The arguments callers pass.
ProblemStatements == {"ps"}
Plans == {"plan1", "plan2"}
TrainingCodes == {"tc"}
Reviews == {"rv"}
Problems == {None, "err"}
TrainingTests == {"tt"}

NotPassed == "-"

Args(ps, plan, tc, rv, pr, tt) ==
    [problem_statement |-> ps, plan |-> plan, training_code |-> tc,
     review |-> rv, problems |-> pr, training_tests |-> tt]

--------------------------------------------------------------------------
\* One provider.query(system_message, user_message, response_format) made
\* on the provider object p.
Query(p, sys, usr, fmt) ==
    [provider |-> p, system_message |-> sys, user_message |-> usr, response_format |-> fmt]

\* What a call has done so far: the queries it made, its steps in order, the texts it handed to extract_code, the values its
\* locals hold, and how it ended.
NoValue == JsonValue("none", <<>>, <<>>)
NoResponse == [error |-> "none", plan |-> <<>>, code |-> <<>>]

NoCall ==
    [op |-> "none", args |-> Args(NotPassed, NotPassed, NotPassed, NotPassed, NotPassed, NotPassed),
     queries |-> <<>>, events |-> <<>>, extracted |-> <<>>,
     resp |-> <<>>, parsed |-> NoValue, response |-> NoResponse,
     outcome |-> "none", value |-> <<>>, error |-> "none"]

Entered(op, args) == [NoCall EXCEPT !.op = op, !.args = args]

Raise(c, err) == [c EXCEPT !.outcome = "raise", !.error = err]
Return(c, v) == [c EXCEPT !.outcome = "return", !.value = v]

--------------------------------------------------------------------------
Init ==
    /\ pc = [i \in Inst |-> "new"]
    /\ provider = [i \in Inst |-> NoRef]
    /\ histRef = [i \in Inst |-> NoRef]
    /\ heap = [l \in ListIds |-> <<>>]
    /\ alloc = {}
    /\ call = [i \in Inst |-> NoCall]
    /\ appends = [i \in Inst |-> 0]

\* Mutant: one list object, made once, serves every instance.
SharedList == "L1"

\* self.history = []: a list object no other reference holds.
NewList == CHOOSE l \in ListIds : l \notin alloc

\* TrainingCodeGenerator.__init__(provider)
__init__(i, p) ==
    /\ pc[i] = "new"
    /\ provider' = [provider EXCEPT ![i] = p]
    /\ histRef' = [histRef EXCEPT ![i] = NewList]
    /\ heap' = [heap EXCEPT ![NewList] = <<>>]
    /\ alloc' = alloc \cup {NewList}
    /\ pc' = [pc EXCEPT ![i] = "idle"]
    /\ UNCHANGED <<call, appends>>

\* The caller folds a message into the public attribute history between calls.
CallerAppend(i, m) ==
    /\ pc[i] = "idle"
    /\ Len(History(i)) < MaxHist
    /\ heap' = [heap EXCEPT ![histRef[i]] = Append(@, m)]
    /\ appends' = [appends EXCEPT ![i] = @ + 1]
    /\ UNCHANGED <<pc, provider, histRef, alloc, call>>

--------------------------------------------------------------------------
\* generate_training_code, up to its provider.query call: both prompts are
\* rendered and the unstructured query is made.
generate_training_code(i, ps, plan) ==
    /\ pc[i] = "idle"
    /\ LET usr == safe_substitute("prompt_training_generate",
                      [problem_statement |-> ps, plan |-> plan, history |-> History(i),
                       allowed_packages |-> config_allowed_packages,
                       training_data_path |-> config_training_data_path])
           c == Entered("generate_training_code",
                        Args(ps, plan, NotPassed, NotPassed, NotPassed, NotPassed))
       IN  call' = [call EXCEPT ![i] =
                [c EXCEPT !.queries = <<Query(provider[i], BaseSystemMessage, usr, None)>>,
                          !.events = <<"query">>]]
    /\ pc' = [pc EXCEPT ![i] = "generate"]
    /\ UNCHANGED <<provider, histRef, heap, alloc, appends>>

\* Mutant: the returned text is handed back without extraction.
generate_returns_raw_text(i, r) ==
    /\ pc[i] = "generate"
    /\ call' = [call EXCEPT ![i] =
            IF r.raised
            THEN Raise([@ EXCEPT !.events = @ \o <<"raised">>], "ProviderError")
            ELSE Return([@ EXCEPT !.resp = r.text, !.events = @ \o <<"returned">>], r.text)]
    /\ pc' = [pc EXCEPT ![i] = "idle"]
    /\ UNCHANGED <<provider, histRef, heap, alloc, appends>>

\* Mutant: the generated code is appended to the history before returning.
generate_appends_result(i, r) ==
    /\ pc[i] = "generate"
    /\ call' = [call EXCEPT ![i] =
            IF r.raised
            THEN Raise([@ EXCEPT !.events = @ \o <<"raised">>], "ProviderError")
            ELSE Return([@ EXCEPT !.resp = r.text,
                                  !.events = @ \o <<"returned", "extract">>,
                                  !.extracted = Append(@, r.text)],
                        extract_code(r.text))]
    /\ heap' = IF r.raised \/ Len(History(i)) >= MaxHist THEN heap
               ELSE [heap EXCEPT ![histRef[i]] =
                        Append(@, [role |-> "assistant", content |-> "m2"])]
    /\ pc' = [pc EXCEPT ![i] = "idle"]
    /\ UNCHANGED <<provider, histRef, alloc, appends>>

\* generate_training_code, from the provider's answer on: an exception of
\* the query propagates, a returned text goes through extract_code.
generate_training_code_return(i, r) ==
    /\ pc[i] = "generate"
    /\ call' = [call EXCEPT ![i] =
            IF r.raised
            THEN Raise([@ EXCEPT !.events = @ \o <<"raised">>], "ProviderError")
            ELSE Return([@ EXCEPT !.resp = r.text,
                                  !.events = @ \o <<"returned", "extract">>,
                                  !.extracted = Append(@, r.text)],
                        extract_code(r.text))]
    /\ pc' = [pc EXCEPT ![i] = "idle"]
    /\ UNCHANGED <<provider, histRef, heap, alloc, appends>>

\* Mutant: the fix prompt is given the history as well.
fix_with_history(i, tc, plan, rv, pr) ==
    /\ pc[i] = "idle"
    /\ LET usr == safe_substitute("prompt_training_fix",
                      [plan |-> plan, training_code |-> tc, review |-> rv, problems |-> pr,
                       history |-> History(i),
                       training_data_path |-> config_training_data_path,
                       allowed_packages |-> config_allowed_packages])
           c == Entered("fix_training_code",
                        Args(NotPassed, plan, tc, rv, pr, NotPassed))
       IN  call' = [call EXCEPT ![i] =
                [c EXCEPT !.queries = <<Query(provider[i], BaseSystemMessage, usr, "FixResponse")>>,
                          !.events = <<"query">>]]
    /\ pc' = [pc EXCEPT ![i] = "fix"]
    /\ UNCHANGED <<provider, histRef, heap, alloc, appends>>

\* fix_training_code, up to its provider.query call: the structured query,
\* with response_format=FixResponse.
fix_training_code(i, tc, plan, rv, pr) ==
    /\ pc[i] = "idle"
    /\ LET usr == safe_substitute("prompt_training_fix",
                      [plan |-> plan, training_code |-> tc, review |-> rv, problems |-> pr,
                       training_data_path |-> config_training_data_path,
                       allowed_packages |-> config_allowed_packages])
           c == Entered("fix_training_code",
                        Args(NotPassed, plan, tc, rv, pr, NotPassed))
       IN  call' = [call EXCEPT ![i] =
                [c EXCEPT !.queries = <<Query(provider[i], BaseSystemMessage, usr, "FixResponse")>>,
                          !.events = <<"query">>]]
    /\ pc' = [pc EXCEPT ![i] = "fix"]
    /\ UNCHANGED <<provider, histRef, heap, alloc, appends>>

\* Mutant: a provider error is swallowed once and the query made again.
fix_retries_provider_error(i, r) ==
    /\ pc[i] = "fix"
    /\ LET obj == json_loads(r.text)
       IN  IF r.raised /\ Len(call[i].queries) < 2
           THEN /\ call' = [call EXCEPT ![i] =
                        [@ EXCEPT !.queries = @ \o @, !.events = @ \o <<"raised", "query">>]]
                /\ pc' = pc
           ELSE IF r.raised
           THEN /\ call' = [call EXCEPT ![i] =
                        Raise([@ EXCEPT !.events = @ \o <<"raised">>], "ProviderError")]
                /\ pc' = [pc EXCEPT ![i] = "idle"]
           ELSE IF obj = JSONDecodeError
           THEN /\ call' = [call EXCEPT ![i] =
                        Raise([@ EXCEPT !.resp = r.text,
                                        !.events = @ \o <<"returned", "loads">>],
                              "JSONDecodeError")]
                /\ pc' = [pc EXCEPT ![i] = "idle"]
           ELSE /\ call' = [call EXCEPT ![i] =
                        [@ EXCEPT !.resp = r.text, !.parsed = obj,
                                  !.events = @ \o <<"returned", "loads">>]]
                /\ pc' = [pc EXCEPT ![i] = "fix_loaded"]
    /\ UNCHANGED <<provider, histRef, heap, alloc, appends>>

\* Mutant: a response that is not JSON makes the call ask the provider again.
fix_requeries_on_bad_json(i, r) ==
    /\ pc[i] = "fix"
    /\ LET obj == json_loads(r.text)
       IN  IF r.raised
           THEN /\ call' = [call EXCEPT ![i] =
                        Raise([@ EXCEPT !.events = @ \o <<"raised">>], "ProviderError")]
                /\ pc' = [pc EXCEPT ![i] = "idle"]
           ELSE IF obj = JSONDecodeError /\ Len(call[i].queries) < 2
           THEN /\ call' = [call EXCEPT ![i] =
                        [@ EXCEPT !.queries = @ \o @,
                                  !.events = @ \o <<"returned", "loads", "query">>]]
                /\ pc' = pc
           ELSE IF obj = JSONDecodeError
           THEN /\ call' = [call EXCEPT ![i] =
                        Raise([@ EXCEPT !.resp = r.text,
                                        !.events = @ \o <<"returned", "loads">>],
                              "JSONDecodeError")]
                /\ pc' = [pc EXCEPT ![i] = "idle"]
           ELSE /\ call' = [call EXCEPT ![i] =
                        [@ EXCEPT !.resp = r.text, !.parsed = obj,
                                  !.events = @ \o <<"returned", "loads">>]]
                /\ pc' = [pc EXCEPT ![i] = "fix_loaded"]
    /\ UNCHANGED <<provider, histRef, heap, alloc, appends>>

\* fix_training_code: the provider answers and json.loads reads the text.
fix_training_code_loads(i, r) ==
    /\ pc[i] = "fix"
    /\ LET obj == json_loads(r.text)
       IN  IF r.raised
           THEN /\ call' = [call EXCEPT ![i] =
                        Raise([@ EXCEPT !.events = @ \o <<"raised">>], "ProviderError")]
                /\ pc' = [pc EXCEPT ![i] = "idle"]
           ELSE IF obj = JSONDecodeError
           THEN /\ call' = [call EXCEPT ![i] =
                        Raise([@ EXCEPT !.resp = r.text,
                                        !.events = @ \o <<"returned", "loads">>],
                              "JSONDecodeError")]
                /\ pc' = [pc EXCEPT ![i] = "idle"]
           ELSE /\ call' = [call EXCEPT ![i] =
                        [@ EXCEPT !.resp = r.text, !.parsed = obj,
                                  !.events = @ \o <<"returned", "loads">>]]
                /\ pc' = [pc EXCEPT ![i] = "fix_loaded"]
    /\ UNCHANGED <<provider, histRef, heap, alloc, appends>>

\* fix_training_code: FixResponse(**obj) validates the parsed value.
fix_training_code_validate(i) ==
    /\ pc[i] = "fix_loaded"
    /\ LET v == FixResponse(call[i].parsed)
       IN  IF v.error # "none"
           THEN /\ call' = [call EXCEPT ![i] =
                        Raise([@ EXCEPT !.events = @ \o <<"validate">>], v.error)]
                /\ pc' = [pc EXCEPT ![i] = "idle"]
           ELSE /\ call' = [call EXCEPT ![i] =
                        [@ EXCEPT !.response = v, !.events = @ \o <<"validate">>]]
                /\ pc' = [pc EXCEPT ![i] = "fix_valid"]
    /\ UNCHANGED <<provider, histRef, heap, alloc, appends>>

\* Mutant: the code field is returned as it stands.
fix_returns_code_unextracted(i) ==
    /\ pc[i] = "fix_valid"
    /\ call' = [call EXCEPT ![i] = Return(@, call[i].response.code)]
    /\ pc' = [pc EXCEPT ![i] = "idle"]
    /\ UNCHANGED <<provider, histRef, heap, alloc, appends>>

\* fix_training_code: return extract_code(response.code)
fix_training_code_extract(i) ==
    /\ pc[i] = "fix_valid"
    /\ call' = [call EXCEPT ![i] =
            Return([@ EXCEPT !.events = @ \o <<"extract">>,
                             !.extracted = Append(@, call[i].response.code)],
                   extract_code(call[i].response.code))]
    /\ pc' = [pc EXCEPT ![i] = "idle"]
    /\ UNCHANGED <<provider, histRef, heap, alloc, appends>>

\* review_training_code, up to its provider.query call.
review_training_code(i, tc, ps, plan, pr) ==
    /\ pc[i] = "idle"
    /\ LET usr == safe_substitute("prompt_training_review",
                      [problem_statement |-> ps, plan |-> plan, training_code |-> tc,
                       problems |-> pr, history |-> History(i),
                       allowed_packages |-> config_allowed_packages])
           c == Entered("review_training_code",
                        Args(ps, plan, tc, NotPassed, pr, NotPassed))
       IN  call' = [call EXCEPT ![i] =
                [c EXCEPT !.queries = <<Query(provider[i], BaseSystemMessage, usr, None)>>,
                          !.events = <<"query">>]]
    /\ pc' = [pc EXCEPT ![i] = "review"]
    /\ UNCHANGED <<provider, histRef, heap, alloc, appends>>

\* Mutant: the review text goes through extract_code like generated code.
review_extracts_code(i, r) ==
    /\ pc[i] = "review"
    /\ call' = [call EXCEPT ![i] =
            IF r.raised
            THEN Raise([@ EXCEPT !.events = @ \o <<"raised">>], "ProviderError")
            ELSE Return([@ EXCEPT !.resp = r.text,
                                  !.events = @ \o <<"returned", "extract">>,
                                  !.extracted = Append(@, r.text)],
                        extract_code(r.text))]
    /\ pc' = [pc EXCEPT ![i] = "idle"]
    /\ UNCHANGED <<provider, histRef, heap, alloc, appends>>

\* review_training_code, from the provider's answer on: the text is
\* returned as it came.
review_training_code_return(i, r) ==
    /\ pc[i] = "review"
    /\ call' = [call EXCEPT ![i] =
            IF r.raised
            THEN Raise([@ EXCEPT !.events = @ \o <<"raised">>], "ProviderError")
            ELSE Return([@ EXCEPT !.resp = r.text, !.events = @ \o <<"returned">>], r.text)]
    /\ pc' = [pc EXCEPT ![i] = "idle"]
    /\ UNCHANGED <<provider, histRef, heap, alloc, appends>>

\* Mutant: the unimplemented operation returns an empty text.
generate_training_tests_silent(i, ps, plan, tc) ==
    /\ pc[i] = "idle"
    /\ call' = [call EXCEPT ![i] =
            Return(Entered("generate_training_tests",
                           Args(ps, plan, tc, NotPassed, NotPassed, NotPassed)),
                   <<>>)]
    /\ UNCHANGED <<pc, provider, histRef, heap, alloc, appends>>

\* The three test operations: raise NotImplementedError, whatever the arguments.
generate_training_tests(i, ps, plan, tc) ==
    /\ pc[i] = "idle"
    /\ call' = [call EXCEPT ![i] =
            Raise(Entered("generate_training_tests",
                          Args(ps, plan, tc, NotPassed, NotPassed, NotPassed)),
                  "NotImplementedError")]
    /\ UNCHANGED <<pc, provider, histRef, heap, alloc, appends>>

fix_training_tests(i, tt, tc, rv, pr) ==
    /\ pc[i] = "idle"
    /\ call' = [call EXCEPT ![i] =
            Raise(Entered("fix_training_tests",
                          Args(NotPassed, NotPassed, tc, rv, pr, tt)),
                  "NotImplementedError")]
    /\ UNCHANGED <<pc, provider, histRef, heap, alloc, appends>>

review_training_tests(i, tt, tc, ps, plan) ==
    /\ pc[i] = "idle"
    /\ call' = [call EXCEPT ![i] =
            Raise(Entered("review_training_tests",
                          Args(ps, plan, tc, NotPassed, NotPassed, tt)),
                  "NotImplementedError")]
    /\ UNCHANGED <<pc, provider, histRef, heap, alloc, appends>>

\* One step of the program: the instances in I are driven with providers
\* from P, messages from M, plans from PL, problems from PR and provider
\* outcomes from R.
Step(I, P, M, PL, PR, R) ==
    \/ \E i \in I, p \in P : __init__(i, p)
    \/ \E i \in I, m \in M : CallerAppend(i, m)
    \/ \E i \in I, ps \in ProblemStatements, plan \in PL :
          generate_training_code(i, ps, plan)
    \/ \E i \in I, r \in R : generate_training_code_return(i, r)
    \/ \E i \in I, tc \in TrainingCodes, plan \in PL, rv \in Reviews, pr \in PR :
          fix_training_code(i, tc, plan, rv, pr)
    \/ \E i \in I, r \in R : fix_training_code_loads(i, r)
    \/ \E i \in I : fix_training_code_validate(i)
    \/ \E i \in I : fix_training_code_extract(i)
    \/ \E i \in I, tc \in TrainingCodes, ps \in ProblemStatements, plan \in PL,
          pr \in PR : review_training_code(i, tc, ps, plan, pr)
    \/ \E i \in I, r \in R : review_training_code_return(i, r)
    \/ \E i \in I, ps \in ProblemStatements, plan \in PL, tc \in TrainingCodes :
          generate_training_tests(i, ps, plan, tc)
    \/ \E i \in I, tt \in TrainingTests, tc \in TrainingCodes, rv \in Reviews,
          pr \in PR : fix_training_tests(i, tt, tc, rv, pr)
    \/ \E i \in I, tt \in TrainingTests, tc \in TrainingCodes, ps \in ProblemStatements,
          plan \in PL : review_training_tests(i, tt, tc, ps, plan)

\* One session: a single orchestrator, every argument and every provider text.
Next == Step({"a"}, Providers, Msg, Plans, Problems, ProviderOutcomes)

\* Two sessions side by side, each driven with a few provider outcomes.
PairOutcomes ==
    {[raised |-> TRUE, text |-> <<>>]}
        \cup {[raised |-> FALSE, text |-> t] : t \in {MinimalFixText}}

PairMsg == {m \in Msg : m.role = "user"}

NextPair == Step(Inst, Providers, PairMsg, {"plan1"}, Problems, PairOutcomes)

SpecPair == Init /\ [][NextPair]_vars

Spec == Init /\ [][Next]_vars

--------------------------------------------------------------------------
\* Vocabulary of the properties.
TestOps == {"generate_training_tests", "fix_training_tests", "review_training_tests"}
QueryOps == {"generate_training_code", "fix_training_code", "review_training_code"}

\* The exceptions json.loads and FixResponse(**...) raise on a response that
\* fails the structured reading.
StructuredResponseError == {"JSONDecodeError", "TypeError", "ValidationError"}

Ended(i) == pc[i] = "idle" /\ call[i].op # "none"
Has(c, ev) == \E k \in 1..Len(c.events) : c.events[k] = ev
IsPrefix(s, t) == Len(s) <= Len(t) /\ SubSeq(t, 1, Len(s)) = s

\* A step taken on instance i.
Acted(i) == <<pc[i], call[i], appends[i]>>' # <<pc[i], call[i], appends[i]>>

\* A step in which a call on instance i of an operation in ops runs or ends.
OpStep(i, ops) == call'[i] # call[i] /\ call'[i].op \in ops

HistoriesUnchanged == heap' = heap /\ histRef' = histRef

--------------------------------------------------------------------------
\* C1: a generate_training_code call makes exactly one provider query, with
\* no response schema, built from its problem statement and plan; when the
\* query returns, the call returns extract_code of the returned text, having
\* called extract_code once, on that text.
C1_GenerateOneQueryThenExtract ==
    \A i \in Inst : call[i].op = "generate_training_code" =>
        LET c == call[i] IN
        /\ Len(c.queries) = 1
        /\ c.queries[1].response_format = None
        /\ c.queries[1].user_message.template = "prompt_training_generate"
        /\ c.queries[1].user_message.kwargs.problem_statement = c.args.problem_statement
        /\ c.queries[1].user_message.kwargs.plan = c.args.plan
        /\ Has(c, "returned") =>
              /\ c.outcome = "return"
              /\ c.value = extract_code(c.resp)
              /\ c.extracted = <<c.resp>>
              /\ c.events = <<"query", "returned", "extract">>

C1_Witness ==
    /\ Ended("a")
    /\ call["a"].op = "generate_training_code"
    /\ call["a"].args.plan = "plan2"
    /\ call["a"].resp = <<"prose", NL>> \o FencedRaw \o <<NL, "prose">>
    /\ call["a"].value = <<"x=1">>
    /\ History("a") # <<>>

\* C2: a fix_training_code call whose provider response is not JSON, or is
\* JSON without a code field (also with a valid plan field), ends by raising
\* one of the structured-response exceptions, which is neither the
\* provider's error nor NotImplementedError; it returns nothing and never
\* calls extract_code.
C2_FixRejectsInvalid ==
    \A i \in Inst :
        (/\ call[i].op = "fix_training_code"
         /\ Has(call[i], "returned")
         /\ call[i].resp \in RawTexts \cup NotJsonTexts \cup NoCodeTexts) =>
        LET c == call[i] IN
        /\ pc[i] \in {"idle", "fix_loaded"}
        /\ c.outcome # "return"
        /\ c.value = <<>>
        /\ c.extracted = <<>>
        /\ ~Has(c, "extract")
        /\ pc[i] = "idle" =>
              /\ c.outcome = "raise"
              /\ c.error \in StructuredResponseError
              /\ c.error \notin {"ProviderError", "NotImplementedError"}

C2_Witness ==
    /\ Ended("a")
    /\ call["a"].op = "fix_training_code"
    /\ call["a"].resp = Obj1(Member("plan", Str(<<"p">>)))
    /\ call["a"].outcome = "raise"
    /\ call["a"].error = "ValidationError"

\* C3: a fix_training_code call whose provider response is a JSON object
\* with a text plan and a text code returns extract_code of the code field,
\* whatever the plan field holds; for the code ```python\nx=1\n``` it
\* returns x=1.
C3_FixReturnsExtractedCode ==
    \A i \in Inst : (Ended(i) /\ call[i].op = "fix_training_code") =>
        /\ \A pl \in FixPlans, cd \in FixCodes :
              call[i].resp = FixText(pl, cd) =>
                  /\ call[i].outcome = "return"
                  /\ call[i].value = extract_code(cd)
                  /\ call[i].extracted = <<cd>>
        /\ \A pl \in FixPlans :
              call[i].resp = FixText(pl, FencedRaw) => call[i].value = <<"x=1">>
        /\ call[i].resp \in ValidFixTexts => call[i].outcome = "return"

C3_Witness ==
    /\ Ended("a")
    /\ call["a"].op = "fix_training_code"
    /\ call["a"].resp = FixText(<<"q">>, FencedRaw)
    /\ call["a"].outcome = "return"
    /\ call["a"].value = <<"x=1">>

\* C4: a review_training_code call never calls extract_code and never
\* changes a history; when its query returns, it returns the returned text
\* itself, fenced blocks included.
C4_ReviewState ==
    \A i \in Inst : call[i].op = "review_training_code" =>
        /\ call[i].extracted = <<>>
        /\ ~Has(call[i], "extract")
        /\ Has(call[i], "returned") =>
              call[i].outcome = "return" /\ call[i].value = call[i].resp

\* C4: C4_ReviewState holds in every state, and no step of a
\* review_training_code call changes a history.
C4_ReviewReturnsRawText ==
    /\ []C4_ReviewState
    /\ [][\A i \in Inst : OpStep(i, {"review_training_code"}) => HistoriesUnchanged]_vars

C4_Witness ==
    /\ Ended("a")
    /\ call["a"].op = "review_training_code"
    /\ call["a"].resp = <<"prose", NL>> \o FencedRaw \o <<NL, "prose">>
    /\ call["a"].value = call["a"].resp
    /\ Len(History("a")) = 2

\* C5: a call of one of the three test operations raises
\* NotImplementedError, makes no provider query, returns nothing and leaves
\* every history as it was; it does so whenever it is called.
C5_TestOpState ==
    \A i \in Inst : call[i].op \in TestOps =>
        /\ call[i].outcome = "raise"
        /\ call[i].error = "NotImplementedError"
        /\ call[i].queries = <<>>
        /\ call[i].events = <<>>
        /\ call[i].value = <<>>
        /\ pc[i] = "idle"

\* C5: C5_TestOpState holds in every state, and a step of a test operation
\* changes no history and leaves the instance between calls.
C5_TestOpsNotImplemented ==
    /\ []C5_TestOpState
    /\ [][\A i \in Inst : OpStep(i, TestOps) => HistoriesUnchanged /\ pc' = pc]_vars

C5_Witness ==
    /\ call["a"].op = "fix_training_tests"
    /\ call["a"].error = "NotImplementedError"
    /\ call["a"].args.problems = "err"
    /\ Len(History("a")) = 2

\* C6: when the provider query of generate, fix or review raises, the call
\* ends with the provider's error, after its one query and nothing else: no
\* parse, no validation, no extraction, no result, no change of a history.
C6_ProviderErrorState ==
    \A i \in Inst : (call[i].op \in QueryOps /\ Has(call[i], "raised")) =>
        /\ pc[i] = "idle"
        /\ call[i].outcome = "raise"
        /\ call[i].error = "ProviderError"
        /\ Len(call[i].queries) = 1
        /\ call[i].events = <<"query", "raised">>
        /\ call[i].extracted = <<>>
        /\ call[i].parsed = NoValue
        /\ call[i].response = NoResponse
        /\ call[i].value = <<>>

\* C6: C6_ProviderErrorState holds in every state, and the step in which
\* the provider raises ends the call with the queries made so far, the
\* provider's error and every history unchanged.
C6_ProviderErrorPropagates ==
    /\ []C6_ProviderErrorState
    /\ [][\A i \in Inst :
            (pc[i] \in {"generate", "fix", "review"} /\ Has(call'[i], "raised")) =>
                /\ HistoriesUnchanged
                /\ pc'[i] = "idle"
                /\ call'[i].error = "ProviderError"
                /\ call'[i].queries = call[i].queries]_vars

C6_Witness ==
    /\ Ended("a")
    /\ call["a"].op = "fix_training_code"
    /\ call["a"].error = "ProviderError"
    /\ History("a") # <<>>

\* C7: a history holds exactly the messages appended to it, in the order of
\* their appending: it starts empty, every step leaves the earlier entries
\* in place, and a step of generate, fix, review or a test operation,
\* returning or raising, leaves it as it was.
C7_HistoryAppendOnly ==
    /\ [](\A i \in Inst : Len(History(i)) = appends[i])
    /\ [][\A i \in Inst :
            /\ IsPrefix(History(i), History(i)')
            /\ OpStep(i, QueryOps \cup TestOps) => History(i)' = History(i)]_vars

C7_Witness ==
    /\ Ended("a")
    /\ call["a"].op = "generate_training_code"
    /\ call["a"].outcome = "return"
    /\ appends["a"] = 2
    /\ History("a")[1].role = "assistant"
    /\ History("a")[2].role = "user"

\* C9: a fix_training_code call runs query, parse, validate, extract in this
\* order and stops at the first step that fails: it makes one query, with
\* the two-field FixResponse schema; it parses and validates only what that
\* query returned; it calls extract_code at most once, on the code of a
\* validated response; a failed parse or validation ends the call.
FixSteps == <<"query", "returned", "loads", "validate", "extract">>

C9_FixState ==
    \A i \in Inst : call[i].op = "fix_training_code" =>
        LET c == call[i] IN
        /\ Len(c.queries) = 1
        /\ c.queries[1].response_format = "FixResponse"
        /\ c.events = <<"query", "raised">> \/ IsPrefix(c.events, FixSteps)
        /\ Len(c.extracted) <= 1
        /\ Has(c, "extract") =>
              /\ c.response = FixResponse(json_loads(c.resp))
              /\ c.response.error = "none"
              /\ c.extracted = <<c.response.code>>
        /\ c.error \in StructuredResponseError => pc[i] = "idle" /\ ~Has(c, "extract")
        /\ pc[i] = "fix" <=> c.events = <<"query">>
        /\ pc[i] = "fix_loaded" <=> (c.events = SubSeq(FixSteps, 1, 3) /\ c.outcome = "none")
        /\ pc[i] = "fix_valid" <=> c.events = SubSeq(FixSteps, 1, 4) /\ c.outcome = "none"

\* C9: C9_FixState holds in every state; once made, the query of a fix call
\* is never added to, validation runs only on a parsed response and
\* extraction only on a validated one.
C9_FixPipelineOrder ==
    /\ []C9_FixState
    /\ [][\A i \in Inst : OpStep(i, {"fix_training_code"}) =>
            /\ pc[i] # "idle" => call'[i].queries = call[i].queries
            /\ Has(call'[i], "extract") => pc[i] = "fix_valid"
            /\ Has(call'[i], "validate") => pc[i] \in {"fix_loaded", "fix_valid"}]_vars

C9_Witness ==
    /\ Ended("a")
    /\ call["a"].op = "fix_training_code"
    /\ call["a"].events = FixSteps
    /\ call["a"].outcome = "return"

--------------------------------------------------------------------------
\* C8: every instance has a history of its own, empty at its creation, and
\* queries the provider it was created with: a step taken on one instance
\* leaves the history of every other instance as it was, two instances
\* never hold the same list object, and the history in the prompt of a
\* generate or review query in flight is the history of the instance the
\* operation was called on.
C8_InstanceState ==
    \A i \in Inst :
        /\ pc[i] # "new" =>
              /\ histRef[i] \in alloc
              /\ \A j \in Inst \ {i} : histRef[j] # histRef[i]
              /\ appends[i] = 0 => History(i) = <<>>
        /\ pc[i] \in {"generate", "fix", "review"} =>
              call[i].queries[1].provider = provider[i]
        /\ pc[i] \in {"generate", "review"} =>
              call[i].queries[1].user_message.kwargs.history = History(i)

\* C8: C8_InstanceState holds in every state, and a step taken on one
\* instance changes neither the history nor the provider of another.
C8_InstancesIsolated ==
    /\ []C8_InstanceState
    /\ [][\A i \in Inst : Acted(i) =>
            \A j \in Inst \ {i} : History(j)' = History(j) /\ provider'[j] = provider[j]]_vars

C8_Witness ==
    /\ pc["a"] = "generate"
    /\ pc["b"] = "review"
    /\ Len(History("a")) = 2
    /\ History("b") = <<>>
    /\ call["a"].queries[1].user_message.kwargs.history = History("a")
    /\ call["b"].queries[1].user_message.kwargs.history = <<>>
    /\ provider["a"] # provider["b"]

\* C10: the messages of a fix query are determined by the arguments of the
\* call and the configuration, not by the history: two fix calls with equal
\* arguments make equal queries. The user message of a generate or review
\* query holds the history as it stands. All three operations send the base
\* system prompt, rendered with no substitution.
FixUserMessage(args) ==
    safe_substitute("prompt_training_fix",
        [plan |-> args.plan, training_code |-> args.training_code, review |-> args.review,
         problems |-> args.problems, training_data_path |-> config_training_data_path,
         allowed_packages |-> config_allowed_packages])

C10_FixPromptIgnoresHistory ==
    /\ \A i \in Inst : call[i].op \in QueryOps =>
          call[i].queries[1].system_message = safe_substitute("prompt_training_base", NoKwargs)
    /\ \A i \in Inst : call[i].op = "fix_training_code" =>
          call[i].queries[1].user_message = FixUserMessage(call[i].args)
    /\ \A i, j \in Inst :
          (/\ call[i].op = "fix_training_code"
           /\ call[j].op = "fix_training_code"
           /\ call[i].args = call[j].args) =>
              /\ call[i].queries[1].system_message = call[j].queries[1].system_message
              /\ call[i].queries[1].user_message = call[j].queries[1].user_message
    /\ \A i \in Inst : pc[i] \in {"generate", "review"} =>
          call[i].queries[1].user_message.kwargs.history = History(i)

C10_Witness ==
    /\ pc["a"] = "fix"
    /\ pc["b"] = "fix"
    /\ call["a"].args = call["b"].args
    /\ call["a"].args.problems = "err"
    /\ Len(History("a")) = 2
    /\ History("b") = <<>>
    /\ call["a"].queries[1].user_message = call["b"].queries[1].user_message

==========================================================================
